---- MODULE Spec2Model ----
(***************************************************************************)
(* A model of youtube-caption-extractor: the retrieval of a watch page,    *)
(* the extraction of the captionTracks manifest, the choice of a caption   *)
(* track, and the parsing of the transcript document into subtitles.       *)
(*                                                                         *)
(* JavaScript strings are TLA+ strings; positions are 1-based and 0 means  *)
(* "not found".  An optional value (undefined, null or a string) is a      *)
(* record [def, s].                                                        *)
(***************************************************************************)
EXTENDS Integers, Sequences, FiniteSets, TLC

VARIABLES
    \* ---- transcript parsing on its own (SpecParse)
    segs,       \* the segments the document is made of
    transcript, \* the transcript document handed to the parser
    lines,      \* the candidates still to be reduced
    acc,        \* the reduce accumulator: the entries so far
    ppc,        \* "doc" | "reduce" | "done"
    \* ---- track selection on its own (SpecSelect)
    captionTracks, \* the parsed manifest: a sequence of tracks
    selLang,       \* the requested language
    subtitle,      \* the outcome of the selection
    spc,           \* "tracks" | "done"
    \* ---- the requests (Spec, SpecConc): each a function of the request
    opts,       \* the options of the call
    pc,         \* "idle" | "page" | "track" | "returned" | "threw"
    data,       \* the page markup in use (html in part_000), once resolved
    meta,       \* the locals title and description of getVideoDetails
    doc,        \* the transcript document received
    fetched,    \* the retrievals issued, in order: [kind, url]
    ret         \* what the call returned or threw

pvars == <<segs, transcript, lines, acc, ppc>>
svars == <<captionTracks, selLang, subtitle, spc>>
rvars == <<opts, pc, data, meta, doc, fetched, ret>>
vars == <<pvars, svars, rvars>>

(***************************************************************************)
(* Strings                                                                 *)
(***************************************************************************)
None == [def |-> FALSE, s |-> ""]
Some(x) == [def |-> TRUE, s |-> x]
\* JavaScript truthiness of an optional string
Truthy(o) == o.def /\ o.s # ""

Min(S) == CHOOSE x \in S : \A y \in S : x <= y
Max(S) == CHOOSE x \in S : \A y \in S : x >= y

\* s[i], the empty string outside the string
CharAt(s, i) == IF i \in 1..Len(s) THEN SubSeq(s, i, i) ELSE ""
From(s, i) == SubSeq(s, i, Len(s))
StartsAt(s, p, i) ==
    /\ i >= 1
    /\ i + Len(p) - 1 <= Len(s)
    /\ SubSeq(s, i, i + Len(p) - 1) = p

\* String.prototype.indexOf, from position `from`
IndexFrom(s, p, from) ==
    LET hits == {i \in from..(Len(s) - Len(p) + 1) : StartsAt(s, p, i)}
    IN  IF hits = {} THEN 0 ELSE Min(hits)

includes(s, p) == IndexFrom(s, p, 1) # 0

\* String.prototype.replace with a string pattern: the first occurrence only
replace(s, p, r) ==
    LET i == IndexFrom(s, p, 1)
    IN  IF i = 0 THEN s
        ELSE SubSeq(s, 1, i - 1) \o r \o From(s, i + Len(p))

RECURSIVE split(_, _)
split(s, d) ==
    LET i == IndexFrom(s, d, 1)
    IN  IF i = 0 THEN <<s>>
        ELSE <<SubSeq(s, 1, i - 1)>> \o split(From(s, i + Len(d)), d)

WhiteSpace == {" ", "\t", "\n", "\r", "\f"}
LineTerminators == {"\n", "\r"}
\* line && line.trim()
NonBlank(s) == \E i \in 1..Len(s) : CharAt(s, i) \notin WhiteSpace

filter(ls) == SelectSeq(ls, NonBlank)

\* the length of the longest run of characters of class C starting at j
RunLen(s, j, C) ==
    Min({k \in j..(Len(s) + 1) : k > Len(s) \/ CharAt(s, k) \notin C}) - j

Digits == {"0", "1", "2", "3", "4", "5", "6", "7", "8", "9"}
NumChars == Digits \cup {"."}

(***************************************************************************)
(* The transcript parser                                                   *)
(***************************************************************************)
\* /name="([\d.]+)"/.exec(line): the capture of the leftmost match
AttrExec(line, name) ==
    LET pre == name \o "=\""
        ok(i) == /\ StartsAt(line, pre, i)
                 /\ RunLen(line, i + Len(pre), NumChars) >= 1
                 /\ CharAt(line, i + Len(pre) + RunLen(line, i + Len(pre), NumChars)) = "\""
        hits == {i \in 1..Len(line) : ok(i)}
    IN  IF hits = {} THEN None
        ELSE LET i == Min(hits)
             IN  Some(SubSeq(line, i + Len(pre),
                             i + Len(pre) + RunLen(line, i + Len(pre), NumChars) - 1))

startRegex(line) == AttrExec(line, "start")
durRegex(line) == AttrExec(line, "dur")

\* the end of the match of /<text.+>/ that starts at i (0: no match there):
\* .+ is greedy and stops only at a line terminator
TextTagEnd(line, i) ==
    IF ~StartsAt(line, "<text", i) THEN 0
    ELSE LET stop == Min({k \in (i + 5)..(Len(line) + 1) :
                            k > Len(line) \/ CharAt(line, k) \in LineTerminators})
             ends == {k \in (i + 6)..(stop - 1) : CharAt(line, k) = ">"}
         IN  IF ends = {} THEN 0 ELSE Max(ends)

\* line.replace(/<text.+>/, '')
removeTextTag(line) ==
    LET hits == {i \in 1..Len(line) : TextTagEnd(line, i) # 0}
    IN  IF hits = {} THEN line
        ELSE LET i == Min(hits)
             IN  SubSeq(line, 1, i - 1) \o From(line, TextTagEnd(line, i) + 1)

IsAmp(s, i) ==
    /\ i + 4 <= Len(s)
    /\ CharAt(s, i) = "&"
    /\ CharAt(s, i + 1) \in {"a", "A"}
    /\ CharAt(s, i + 2) \in {"m", "M"}
    /\ CharAt(s, i + 3) \in {"p", "P"}
    /\ CharAt(s, i + 4) = ";"

\* s.replace(/&amp;/gi, '&')
RECURSIVE unescapeAmp(_)
unescapeAmp(s) ==
    IF s = "" THEN ""
    ELSE IF IsAmp(s, 1) THEN "&" \o unescapeAmp(From(s, 6))
    ELSE CharAt(s, 1) \o unescapeAmp(From(s, 2))

\* s.replace(/<\/?[^>]+(>|$)/g, ''): a '<', one or more characters other than
\* '>', then a '>' or the end of the input
RECURSIVE removeTags(_)
removeTags(s) ==
    IF s = "" THEN ""
    ELSE IF CharAt(s, 1) = "<" /\ Len(s) >= 2 /\ CharAt(s, 2) # ">"
         THEN LET gt == IndexFrom(s, ">", 2)
              IN  IF gt = 0 THEN "" ELSE removeTags(From(s, gt + 1))
    ELSE CharAt(s, 1) \o removeTags(From(s, 2))

\* he.decode, for the entities the model's documents use: one pass, left to
\* right, the longest entity first (the legacy names also without ';')
Entities ==
    << <<"&amp;", "&">>, <<"&lt;", "<">>, <<"&gt;", ">">>, <<"&quot;", "\"">>,
       <<"&apos;", "'">>, <<"&#39;", "'">>,
       <<"&amp", "&">>, <<"&lt", "<">>, <<"&gt", ">">>, <<"&quot", "\"">> >>

RECURSIVE decode(_)
decode(s) ==
    IF s = "" THEN ""
    ELSE LET hits == {k \in 1..Len(Entities) : StartsAt(s, Entities[k][1], 1)}
         IN  IF hits = {} THEN CharAt(s, 1) \o decode(From(s, 2))
             ELSE LET e == Entities[Min(hits)]
                  IN  e[2] \o decode(From(s, Len(e[1]) + 1))

\* striptags: its character state machine (plaintext, html, comment)
RECURSIVE striptagsFrom(_, _, _, _, _, _)
striptagsFrom(html, state, buf, depth, quote, out) ==
    IF html = "" THEN out
    ELSE
      LET c == CharAt(html, 1)
          rest == From(html, 2)
      IN  CASE state = "plaintext" ->
                 IF c = "<" THEN striptagsFrom(rest, "html", buf \o c, depth, quote, out)
                 ELSE striptagsFrom(rest, state, buf, depth, quote, out \o c)
            [] state = "html" ->
                 IF c = "<" THEN
                     striptagsFrom(rest, state, buf, IF quote # "" THEN depth ELSE depth + 1, quote, out)
                 ELSE IF c = ">" THEN
                     IF quote # "" THEN striptagsFrom(rest, state, buf, depth, quote, out)
                     ELSE IF depth > 0 THEN striptagsFrom(rest, state, buf, depth - 1, quote, out)
                     ELSE striptagsFrom(rest, "plaintext", "", depth, "", out)
                 ELSE IF c \in {"\"", "'"} THEN
                     striptagsFrom(rest, state, buf \o c, depth,
                                   IF c = quote THEN "" ELSE IF quote # "" THEN quote ELSE c, out)
                 ELSE IF c = "-" THEN
                     striptagsFrom(rest, IF buf = "<!-" THEN "comment" ELSE state,
                                   buf \o c, depth, quote, out)
                 ELSE IF c \in {" ", "\n"} /\ buf = "<" THEN
                     striptagsFrom(rest, "plaintext", "", depth, quote, out \o "< ")
                 ELSE striptagsFrom(rest, state, buf \o c, depth, quote, out)
            [] OTHER ->
                 IF c = ">" THEN
                     striptagsFrom(rest,
                                   IF Len(buf) >= 2 /\ From(buf, Len(buf) - 1) = "--"
                                   THEN "plaintext" ELSE state,
                                   "", depth, quote, out)
                 ELSE striptagsFrom(rest, state, buf \o c, depth, quote, out)

striptags(html) == striptagsFrom(html, "plaintext", "", 0, "", "")

\* the text of a line: htmlText, decodedText, text
lineText(line) == striptags(decode(removeTags(unescapeAmp(removeTextTag(line)))))

\* one step of the reduce over the lines
reduceLine(a, line) ==
    LET startResult == startRegex(line)
        durResult == durRegex(line)
    IN  IF ~startResult.def \/ ~durResult.def THEN a
        ELSE Append(a, [start |-> startResult.s, dur |-> durResult.s,
                        text |-> lineText(line)])

XmlProlog == "<?xml version=\"1.0\" encoding=\"utf-8\" ?><transcript>"

\* the candidates of a transcript: wrapper removed, split, blanks dropped
transcriptLines(t) ==
    filter(split(replace(replace(t, XmlProlog, ""), "</transcript>", ""), "</text>"))

RECURSIVE reduce(_, _)
reduce(a, ls) == IF ls = <<>> THEN a ELSE reduce(reduceLine(a, Head(ls)), Tail(ls))

parseTranscript(t) == reduce(<<>>, transcriptLines(t))

(***************************************************************************)
(* The manifest: the captionTracks pattern and JSON.parse                  *)
(***************************************************************************)
JsonWs == {" ", "\t", "\n", "\r"}
Skip(s, i) == i + RunLen(s, i, JsonWs)

JsonFail == [ok |-> FALSE, val |-> [t |-> "none", v |-> ""], next |-> 0]
JsonOk(val, next) == [ok |-> TRUE, val |-> val, next |-> next]

\* a JSON string without escapes ending at the next quote
JsonString(s, i) ==
    LET j == IndexFrom(s, "\"", i + 1)
    IN  IF CharAt(s, i) # "\"" \/ j = 0 THEN JsonFail
        ELSE IF \E k \in (i + 1)..(j - 1) : CharAt(s, k) \in {"\\", "\n", "\r", "\t"}
        THEN JsonFail
        ELSE JsonOk([t |-> "str", v |-> SubSeq(s, i + 1, j - 1)], j + 1)

\* JSON.parse for strings, arrays and objects (the values the model's pages
\* hold): a recursive descent over the text
RECURSIVE JsonValue(_, _), JsonElems(_, _, _), JsonMembers(_, _, _)
JsonValue(s, i0) ==
    LET i == Skip(s, i0)
        c == CharAt(s, i)
    IN  IF c = "\"" THEN JsonString(s, i)
        ELSE IF c = "[" THEN
            IF CharAt(s, Skip(s, i + 1)) = "]"
            THEN JsonOk([t |-> "arr", v |-> <<>>], Skip(s, i + 1) + 1)
            ELSE JsonElems(s, i + 1, <<>>)
        ELSE IF c = "{" THEN
            IF CharAt(s, Skip(s, i + 1)) = "}"
            THEN JsonOk([t |-> "obj", v |-> <<>>], Skip(s, i + 1) + 1)
            ELSE JsonMembers(s, i + 1, <<>>)
        ELSE JsonFail

JsonElems(s, i, sofar) ==
    LET e == JsonValue(s, i)
    IN  IF ~e.ok THEN JsonFail
        ELSE LET j == Skip(s, e.next)
                 c == CharAt(s, j)
             IN  IF c = "," THEN JsonElems(s, j + 1, Append(sofar, e.val))
                 ELSE IF c = "]" THEN JsonOk([t |-> "arr", v |-> Append(sofar, e.val)], j + 1)
                 ELSE JsonFail

JsonMembers(s, i, sofar) ==
    LET k == JsonString(s, Skip(s, i))
    IN  IF ~k.ok \/ CharAt(s, Skip(s, k.next)) # ":" THEN JsonFail
        ELSE LET e == JsonValue(s, Skip(s, k.next) + 1)
             IN  IF ~e.ok THEN JsonFail
                 ELSE LET j == Skip(s, e.next)
                          c == CharAt(s, j)
                          m == Append(sofar, <<k.val.v, e.val>>)
                      IN  IF c = "," THEN JsonMembers(s, j + 1, m)
                          ELSE IF c = "}" THEN JsonOk([t |-> "obj", v |-> m], j + 1)
                          ELSE JsonFail

\* JSON.parse(text): ok = FALSE stands for the SyntaxError it throws
JSONparse(text) ==
    LET r == JsonValue(text, 1)
    IN  IF r.ok /\ Skip(text, r.next) = Len(text) + 1 THEN r ELSE JsonFail

\* track.<key> of a parsed element: a string member (the last of that name),
\* undefined when there is none
Member(val, key) ==
    IF val.t # "obj" THEN None
    ELSE LET hits == {k \in 1..Len(val.v) : val.v[k][1] = key}
         IN  IF hits = {} \/ val.v[Max(hits)][2].t # "str" THEN None
             ELSE Some(val.v[Max(hits)][2].v)

TrackOf(val) == [baseUrl |-> Member(val, "baseUrl"), vssId |-> Member(val, "vssId")]
TracksOf(arr) == [k \in 1..Len(arr.v) |-> TrackOf(arr.v[k])]

CaptionKey == "\"captionTracks\":"

\* the capture of the captionTracks pattern at i (None: no match there).  The
\* array is matched lazily, up to the first `closer` on the same line; with
\* `ws` the key may be followed by white space.
\*   index.ts:  /"captionTracks":(\[.*?\])/           closer "]"
\*   part_000:  /"captionTracks":\s*?((\[.*?\]),)/    closer "],"
captionTracksAt(page, i, ws, closer) ==
    IF ~StartsAt(page, CaptionKey, i) THEN None
    ELSE LET k == i + Len(CaptionKey)
             o == IF ws THEN k + RunLen(page, k, WhiteSpace) ELSE k
             stop == Min({e \in o..(Len(page) + 1) :
                            e > Len(page) \/ CharAt(page, e) \in LineTerminators})
             ends == {e \in (o + 1)..(stop - 1) : StartsAt(page, closer, e)}
         IN  IF CharAt(page, o) # "[" \/ ends = {} THEN None
             ELSE Some(SubSeq(page, o, Min(ends)))

\* regex.exec(page): the leftmost match
captionTracksExec(page, ws, closer) ==
    LET hits == {i \in 1..Len(page) : captionTracksAt(page, i, ws, closer).def}
    IN  IF hits = {} THEN None ELSE captionTracksAt(page, Min(hits), ws, closer)

(***************************************************************************)
(* The track selection                                                     *)
(***************************************************************************)
\* vssId.match(`.${lang}`): the string is compiled to a regular expression,
\* in which '.' is any character but a line terminator (lang holds no
\* pattern characters in the model)
matchDotLang(vssId, lang) ==
    \E i \in 1..Len(vssId) :
        /\ CharAt(vssId, i) \notin LineTerminators
        /\ StartsAt(vssId, lang, i + 1)

Tier1(lang, track) == track.vssId.def /\ track.vssId.s = "." \o lang
Tier2(lang, track) == track.vssId.def /\ track.vssId.s = "a." \o lang
Tier3(lang, track) == Truthy(track.vssId) /\ matchDotLang(track.vssId.s, lang)

\* captionTracks.find with the callback of tier n: the index of the first
\* track that satisfies it, 0 when there is none
find(tracks, lang, n) ==
    LET hits == {k \in 1..Len(tracks) :
                    CASE n = 1 -> Tier1(lang, tracks[k])
                      [] n = 2 -> Tier2(lang, tracks[k])
                      [] OTHER -> Tier3(lang, tracks[k])}
    IN  IF hits = {} THEN 0 ELSE Min(hits)

\* find(..) || find(..) || find(..): the index of the chosen track, 0 for none
selectTrack(tracks, lang) ==
    IF find(tracks, lang, 1) # 0 THEN find(tracks, lang, 1)
    ELSE IF find(tracks, lang, 2) # 0 THEN find(tracks, lang, 2)
    ELSE find(tracks, lang, 3)

\* subtitle?.baseUrl, when it is truthy
selectedUrl(tracks, lang) ==
    LET k == selectTrack(tracks, lang)
    IN  IF k # 0 /\ Truthy(tracks[k].baseUrl) THEN Some(tracks[k].baseUrl.s) ELSE None

(***************************************************************************)
(* SpecSelect: the selection applied to every short track list             *)
(***************************************************************************)
MaxTracks == 2

VssIds == {None, Some(".en"), Some("a.en"), Some(".en-US"), Some("aen"),
           Some("en"), Some(".fr"), Some("a.fr")}
BaseUrls == {None, Some("u1"), Some("u2")}
Tracks == [baseUrl : BaseUrls, vssId : VssIds]
Langs == {"en", "fr"}

TrackLists == UNION {[1..n -> Tracks] : n \in 0..MaxTracks}

NoTrack == [baseUrl |-> None, vssId |-> None]
NoSubtitle == [index |-> 0, track |-> NoTrack, url |-> None]

SelectInit ==
    /\ captionTracks \in TrackLists
    /\ selLang \in Langs
    /\ subtitle = NoSubtitle
    /\ spc = "tracks"

\* the three finds and the baseUrl test of getSubtitles
Select ==
    /\ spc = "tracks"
    /\ LET k == selectTrack(captionTracks, selLang)
       IN  subtitle' = [index |-> k,
                        track |-> IF k = 0 THEN NoTrack ELSE captionTracks[k],
                        url |-> selectedUrl(captionTracks, selLang)]
    /\ spc' = "done"
    /\ UNCHANGED <<captionTracks, selLang, pvars, rvars>>

(***************************************************************************)
(* SpecParse: the parser applied to every short transcript document        *)
(***************************************************************************)
MaxSegs == 2

Starts == {None, Some("1.0"), Some("1.2.3")}
Durs == {None, Some("2.5"), Some(".")}
Bodies == {"Hello &amp;amp; world",
           "Hello <b>big</b> world",
           "&amp;lt;b&amp;gt;Hi&amp;amp;Bye&amp;lt;/b&amp;gt;",
           "dur=\"2\"",
           "broken"}
Segments == [start : Starts, dur : Durs, body : Bodies]
SegLists == UNION {[1..n -> Segments] : n \in 0..MaxSegs}

\* the text-segment element of a segment: its opening tag, body, closing tag
Element(seg) ==
    "<text"
    \o (IF seg.start.def THEN " start=\"" \o seg.start.s \o "\"" ELSE "")
    \o (IF seg.dur.def THEN " dur=\"" \o seg.dur.s \o "\"" ELSE "")
    \o ">" \o seg.body \o "</text>"

RECURSIVE Elements(_)
Elements(ss) == IF ss = <<>> THEN "" ELSE Element(Head(ss)) \o Elements(Tail(ss))

\* the transcript document of the segments, with or without its wrapper
Document(ss, wrapped) ==
    IF wrapped THEN XmlProlog \o Elements(ss) \o "</transcript>" ELSE Elements(ss)

ParseInit ==
    /\ segs \in SegLists
    /\ \E wrapped \in BOOLEAN : transcript = Document(segs, wrapped)
    /\ lines = <<>>
    /\ acc = <<>>
    /\ ppc = "doc"

\* replace, replace, split, filter
SplitTranscript ==
    /\ ppc = "doc"
    /\ lines' = transcriptLines(transcript)
    /\ ppc' = "reduce"
    /\ UNCHANGED <<segs, transcript, acc, svars, rvars>>

\* one call of the reduce callback
ReduceStep ==
    /\ ppc = "reduce"
    /\ lines # <<>>
    /\ acc' = reduceLine(acc, Head(lines))
    /\ lines' = Tail(lines)
    /\ UNCHANGED <<segs, transcript, ppc, svars, rvars>>

\* the reduce returns the accumulator
ReduceDone ==
    /\ ppc = "reduce"
    /\ lines = <<>>
    /\ ppc' = "done"
    /\ UNCHANGED <<segs, transcript, lines, acc, svars, rvars>>

(***************************************************************************)
(* The requests                                                            *)
(***************************************************************************)
NoTitle == "No title found"
NoDescription == "No description found"

\* data.match(/<meta name="NAME" content="([^"]*|[^"]*[^&]quot;[^"]*)">/):
\* neither alternative can hold a '"', so the capture is the run of
\* characters up to the next '"', which '>' must follow
metaMatch(html, name) ==
    LET pre == "<meta name=\"" \o name \o "\" content=\""
        close(i) == IndexFrom(html, "\"", i + Len(pre))
        ok(i) == /\ StartsAt(html, pre, i)
                 /\ close(i) # 0
                 /\ StartsAt(html, "\">", close(i))
        hits == {i \in 1..Len(html) : ok(i)}
    IN  IF hits = {} THEN None
        ELSE Some(SubSeq(html, Min(hits) + Len(pre), close(Min(hits)) - 1))

\* the description read from the title tag
descriptionOfTitleTag(html) ==
    IF metaMatch(html, "title").def THEN metaMatch(html, "title").s
    ELSE NoDescription

titleOf(html) ==
    IF metaMatch(html, "title").def THEN metaMatch(html, "title").s ELSE NoTitle
descriptionOf(html) ==
    IF metaMatch(html, "description").def THEN metaMatch(html, "description").s
    ELSE NoDescription

pageUrlOf(videoID) == "https://m.youtube.com/watch?v=" \o videoID

\* proxy?.(pageUrl): what the caller's proxy function gives
proxyResult(proxy, pageUrl) ==
    CASE proxy = "absent" -> None
      [] proxy = "null" -> None
      [] proxy = "empty" -> Some("")
      [] OTHER -> Some("https://proxy/?u=" \o pageUrl)

\* proxy?.(pageUrl) || pageUrl
requestUrlOf(o) ==
    LET pageUrl == pageUrlOf(o.videoID)
        p == proxyResult(o.proxy, pageUrl)
    IN  IF Truthy(p) THEN p.s ELSE pageUrl

\* const { lang = 'en' } = options
langOf(o) == IF o.lang.def THEN o.lang.s ELSE "en"

Pending == [kind |-> "pending", title |-> "", description |-> "",
            subtitles |-> <<>>, url |-> None, error |-> ""]
Throw(e) == [Pending EXCEPT !.kind = "error", !.error = e]
NoMeta == [title |-> "", description |-> ""]

\* what an entry point returns for the subtitles `subs`
Return(o, m, subs) ==
    IF o.entry = "getVideoDetails"
    THEN [Pending EXCEPT !.kind = "details", !.title = m.title,
                         !.description = m.description, !.subtitles = subs]
    ELSE [Pending EXCEPT !.kind = "subtitles", !.subtitles = subs]
ReturnUrl(u) == [Pending EXCEPT !.kind = "url", !.url = u]

\* the locals title and description once the page is known
metaOf(o, html) ==
    IF o.entry = "getVideoDetails"
    THEN [title |-> titleOf(html), description |-> descriptionOf(html)]
    ELSE NoMeta

\* from the page markup to the track URL: the marker test, the pattern, the
\* JSON.parse, the finds and the baseUrl test.
\*   do = "notfound": a warning and an early return;  "throw": JSON.parse
\*   threw;  "url": subtitle.baseUrl
resolveTrack(o, html) ==
    LET m == IF o.module = "index.ts"
             THEN captionTracksExec(html, FALSE, "]")
             ELSE captionTracksExec(html, TRUE, "],")
        j == JSONparse(m.s)
        u == selectedUrl(TracksOf(j.val), langOf(o))
    IN  IF ~includes(html, "captionTracks") THEN [do |-> "notfound", url |-> ""]
        ELSE IF ~m.def THEN [do |-> "notfound", url |-> ""]
        ELSE IF ~j.ok THEN [do |-> "throw", url |-> ""]
        ELSE IF ~u.def THEN [do |-> "notfound", url |-> ""]
        ELSE [do |-> "url", url |-> u.s]

\* title and description kept in one place for all the requests: a request
\* reads what another one has written
metaShared(r) ==
    LET others == {q \in DOMAIN meta : q # r /\ meta[q] # NoMeta}
    IN  IF others = {} THEN meta[r] ELSE meta[CHOOSE q \in others : TRUE]

\* the locals title and description, read back after the track retrieval
metaAt(r) == meta[r]

\* the request goes on without its early return: a NotFound is followed by
\* the retrieval of the missing URL
ProceedNoReturn(r, o, m, t) ==
    IF t.do = "throw"
    THEN /\ pc' = [pc EXCEPT ![r] = "threw"]
         /\ ret' = [ret EXCEPT ![r] = Throw("SyntaxError")]
         /\ UNCHANGED fetched
    ELSE IF o.entry = "getSubtitlesDownloadUrl"
    THEN /\ pc' = [pc EXCEPT ![r] = "returned"]
         /\ ret' = [ret EXCEPT ![r] = ReturnUrl(IF t.do = "url" THEN Some(t.url) ELSE None)]
         /\ UNCHANGED fetched
    ELSE /\ pc' = [pc EXCEPT ![r] = "track"]
         /\ fetched' = [fetched EXCEPT ![r] = Append(@, [kind |-> "track", url |-> t.url])]
         /\ UNCHANGED ret

\* the request goes on, synchronously, from the track resolution `t`
Proceed(r, o, m, t) ==
    CASE t.do = "throw" ->
           /\ pc' = [pc EXCEPT ![r] = "threw"]
           /\ ret' = [ret EXCEPT ![r] = Throw("SyntaxError")]
           /\ UNCHANGED fetched
      [] t.do = "notfound" ->
           /\ pc' = [pc EXCEPT ![r] = "returned"]
           /\ ret' = [ret EXCEPT ![r] =
                        IF o.entry = "getSubtitlesDownloadUrl" THEN ReturnUrl(None)
                        ELSE Return(o, m, <<>>)]
           /\ UNCHANGED fetched
      [] OTHER ->
           IF o.entry = "getSubtitlesDownloadUrl"
           THEN /\ pc' = [pc EXCEPT ![r] = "returned"]
                /\ ret' = [ret EXCEPT ![r] = ReturnUrl(Some(t.url))]
                /\ UNCHANGED fetched
           ELSE /\ pc' = [pc EXCEPT ![r] = "track"]
                /\ fetched' = [fetched EXCEPT ![r] = Append(@, [kind |-> "track", url |-> t.url])]
                /\ UNCHANGED ret

\* the request goes on from the page markup `html`
WithPage(r, o, html) ==
    /\ data' = [data EXCEPT ![r] = Some(html)]
    /\ meta' = [meta EXCEPT ![r] = metaOf(o, html)]
    /\ Proceed(r, o, metaOf(o, html), resolveTrack(o, html))

\* the supplied page markup tested before the supplied captionDownloadUrl
getYouTubePageHTMLPageFirst(o) ==
    IF o.module = "index.ts" THEN
        IF Truthy(o.pageHtml) THEN [do |-> "html", url |-> ""]
        ELSE IF requestUrlOf(o) = "" THEN [do |-> "throw", url |-> ""]
        ELSE [do |-> "fetch", url |-> requestUrlOf(o)]
    ELSE
        IF Truthy(o.pageHtml) THEN [do |-> "html", url |-> ""]
        ELSE IF Truthy(o.captionDownloadUrl) THEN [do |-> "direct", url |-> o.captionDownloadUrl.s]
        ELSE IF o.videoID = "" THEN [do |-> "null", url |-> ""]
        ELSE [do |-> "fetch", url |-> pageUrlOf(o.videoID)]

\* getYouTubePageHTML (index.ts) and the head of getCaptionDownloadUrl
\* (part_000): where the page markup comes from.
\*   "html": the supplied markup;  "fetch": a page retrieval of url;
\*   "throw": the proxy error;  "direct": the supplied captionDownloadUrl;
\*   "null": no video ID
getYouTubePageHTML(o) ==
    IF o.module = "index.ts" THEN
        IF Truthy(o.pageHtml) THEN [do |-> "html", url |-> ""]
        ELSE IF requestUrlOf(o) = "" THEN [do |-> "throw", url |-> ""]
        ELSE [do |-> "fetch", url |-> requestUrlOf(o)]
    ELSE
        IF Truthy(o.captionDownloadUrl) THEN [do |-> "direct", url |-> o.captionDownloadUrl.s]
        ELSE IF Truthy(o.pageHtml) THEN [do |-> "html", url |-> ""]
        ELSE IF o.videoID = "" THEN [do |-> "null", url |-> ""]
        ELSE [do |-> "fetch", url |-> pageUrlOf(o.videoID)]

\* a call of an entry point, up to its first suspension or its return
Call(r, o) ==
    /\ pc[r] = "idle"
    /\ opts' = [opts EXCEPT ![r] = o]
    /\ LET g == getYouTubePageHTML(o)
       IN  CASE g.do = "html" -> WithPage(r, o, o.pageHtml.s)
             [] g.do = "fetch" ->
                  /\ pc' = [pc EXCEPT ![r] = "page"]
                  /\ fetched' = [fetched EXCEPT ![r] = Append(@, [kind |-> "page", url |-> g.url])]
                  /\ UNCHANGED <<data, meta, ret>>
             [] g.do = "throw" ->
                  /\ pc' = [pc EXCEPT ![r] = "threw"]
                  /\ ret' = [ret EXCEPT ![r] = Throw("Proxy function didn't return a valid url")]
                  /\ UNCHANGED <<data, meta, fetched>>
             [] g.do = "direct" ->
                  /\ Proceed(r, o, NoMeta, [do |-> "url", url |-> g.url])
                  /\ UNCHANGED <<data, meta>>
             [] OTHER ->
                  /\ Proceed(r, o, NoMeta, [do |-> "notfound", url |-> ""])
                  /\ UNCHANGED <<data, meta>>
    /\ UNCHANGED <<doc, pvars, svars>>

\* the page retrieval answers with the markup html
PageResponse(r, html) ==
    /\ pc[r] = "page"
    /\ WithPage(r, opts[r], html)
    /\ UNCHANGED <<opts, doc, pvars, svars>>

\* the track retrieval answers with the document t: the parse and the return
TrackResponse(r, t) ==
    /\ pc[r] = "track"
    /\ doc' = [doc EXCEPT ![r] = Some(t)]
    /\ pc' = [pc EXCEPT ![r] = "returned"]
    /\ ret' = [ret EXCEPT ![r] = Return(opts[r], metaAt(r), parseTranscript(t))]
    /\ UNCHANGED <<opts, data, meta, fetched, pvars, svars>>

\* a retrieval fails: fetch rejects and the call throws
FetchFails(r) ==
    /\ pc[r] \in {"page", "track"}
    /\ pc' = [pc EXCEPT ![r] = "threw"]
    /\ ret' = [ret EXCEPT ![r] = Throw("fetch failed")]
    /\ UNCHANGED <<opts, data, meta, doc, fetched, pvars, svars>>

(***************************************************************************)
(* The inputs of the requests                                              *)
(***************************************************************************)
\* what follows the meta tags of a page
BodyNoMarker == "<body>no captions</body>"
BodyNoArray == "{\"captionTracks\":null}"
BodyTracks ==
    "\"captionTracks\":[{\"baseUrl\":\"u1\",\"vssId\":\"a.en\"},{\"baseUrl\":\"u2\",\"vssId\":\".fr\"}],\"x\":[]"
BodyRuns ==
    "\"captionTracks\":[{\"baseUrl\":\"u1\",\"name\":{\"runs\":[{\"text\":\"E\"}]},\"vssId\":\".en\"}],\"x\":[]"
BodyTags ==
    "\"captionTracks\":[{\"baseUrl\":\"u1\",\"tags\":[\"a\"],\"vssId\":\".en\"}],\"x\":[]"
BodyNoUrl == "\"captionTracks\":[{\"vssId\":\".en\"},{\"baseUrl\":\"u3\",\"vssId\":\"a.en\"}],"

PageBodies == {BodyNoMarker, BodyNoArray, BodyTracks, BodyRuns, BodyTags, BodyNoUrl}
PageMetas == {[title |-> None, description |-> None],
              [title |-> Some("X"), description |-> None],
              [title |-> Some("Y"), description |-> Some("D")]}
PageDescs == [head : PageMetas, body : PageBodies]

\* the markup of a page: its meta tags, when it has them, and its body
Markup(p) ==
    (IF p.head.title.def
     THEN "<meta name=\"title\" content=\"" \o p.head.title.s \o "\">" ELSE "")
    \o (IF p.head.description.def
        THEN "<meta name=\"description\" content=\"" \o p.head.description.s \o "\">"
        ELSE "")
    \o p.body

Pages == {Markup(p) : p \in PageDescs}

SegHello == [start |-> Some("1.0"), dur |-> Some("2.5"), body |-> "Hello &amp;amp; world"]
SegBroken == [start |-> Some("3.0"), dur |-> None, body |-> "broken"]
Transcripts == {"", Document(<<SegHello, SegBroken>>, FALSE), Document(<<SegHello>>, TRUE)}

NoOptions == [module |-> "", entry |-> "", videoID |-> "", lang |-> None,
              pageHtml |-> None, proxy |-> "absent", captionDownloadUrl |-> None]

PageHtmls == {None, Some("")} \cup {Some(h) : h \in Pages}

\* the calls of index.ts: { videoID, lang, pageHtml, proxy }
IndexOptions ==
    [module : {"index.ts"}, entry : {"getVideoDetails", "getSubtitles"},
     videoID : {"v1"}, lang : {None, Some("fr")}, pageHtml : PageHtmls,
     proxy : {"absent", "null", "empty", "rewrite"}, captionDownloadUrl : {None}]

\* the calls of part_000: { videoID, lang, pageHtml, captionDownloadUrl }
PartOptions ==
    [module : {"part_000"}, entry : {"getSubtitles", "getSubtitlesDownloadUrl"},
     videoID : {"", "v1"}, lang : {None, Some("fr")}, pageHtml : PageHtmls,
     proxy : {"absent"}, captionDownloadUrl : {None, Some(""), Some("u9")}]

Options == IndexOptions \cup PartOptions

(***************************************************************************)
(* The specifications                                                      *)
(***************************************************************************)
ParseIdle ==
    /\ segs = <<>>
    /\ transcript = ""
    /\ lines = <<>>
    /\ acc = <<>>
    /\ ppc = "off"

SelectIdle ==
    /\ captionTracks = <<>>
    /\ selLang = "en"
    /\ subtitle = NoSubtitle
    /\ spc = "off"

\* the requests R, none of them called yet
RequestsInit(R) ==
    /\ opts = [r \in R |-> NoOptions]
    /\ pc = [r \in R |-> "idle"]
    /\ data = [r \in R |-> None]
    /\ meta = [r \in R |-> NoMeta]
    /\ doc = [r \in R |-> None]
    /\ fetched = [r \in R |-> <<>>]
    /\ ret = [r \in R |-> Pending]

\* Spec: one request, every call and every answer
Init == ParseIdle /\ SelectIdle /\ RequestsInit({1})
Next ==
    \/ \E o \in Options : Call(1, o)
    \/ \E html \in Pages : PageResponse(1, html)
    \/ \E t \in Transcripts : TrackResponse(1, t)
    \/ FetchFails(1)
Spec == Init /\ [][Next]_vars

\* SpecConc: NumReqs requests interleaved at their suspension points
NumReqs == 2
Reqs == 1..NumReqs

ConcOptions ==
    {[module |-> "index.ts", entry |-> "getVideoDetails", videoID |-> "v1", lang |-> None,
      pageHtml |-> None, proxy |-> "absent", captionDownloadUrl |-> None],
     [module |-> "index.ts", entry |-> "getVideoDetails", videoID |-> "v1", lang |-> Some("fr"),
      pageHtml |-> Some(Markup([head |-> [title |-> Some("Y"), description |-> Some("D")],
                                body |-> BodyTracks])),
      proxy |-> "absent", captionDownloadUrl |-> None],
     [module |-> "part_000", entry |-> "getSubtitles", videoID |-> "v1", lang |-> None,
      pageHtml |-> None, proxy |-> "absent", captionDownloadUrl |-> None]}
ConcPages ==
    {Markup([head |-> [title |-> Some("X"), description |-> None], body |-> BodyTracks]),
     Markup([head |-> [title |-> None, description |-> None], body |-> BodyNoMarker])}
ConcTranscripts == {"", Document(<<SegHello, SegBroken>>, FALSE)}

ConcInit == ParseIdle /\ SelectIdle /\ RequestsInit(Reqs)
ConcNext ==
    \E r \in Reqs :
        \/ \E o \in ConcOptions : Call(r, o)
        \/ \E html \in ConcPages : PageResponse(r, html)
        \/ \E t \in ConcTranscripts : TrackResponse(r, t)
        \/ FetchFails(r)
SpecConc == ConcInit /\ [][ConcNext]_vars

\* SpecSelect: the selection of a track from a track list
SelectSpecInit == SelectInit /\ ParseIdle /\ RequestsInit({})
SelectNext == Select
SpecSelect == SelectSpecInit /\ [][SelectNext]_vars

\* SpecParse: the parse of a transcript document
ParseSpecInit == ParseInit /\ SelectIdle /\ RequestsInit({})
ParseNext == SplitTranscript \/ ReduceStep \/ ReduceDone
SpecParse == ParseSpecInit /\ [][ParseNext]_vars

(***************************************************************************)
(* Track selection (SpecSelect)                                            *)
(***************************************************************************)
\* the index of the first track whose vssId is in the set V, 0 when there is
\* none
FirstIn(tracks, V) ==
    LET hits == {k \in 1..Len(tracks) : tracks[k].vssId.def /\ tracks[k].vssId.s \in V}
    IN  IF hits = {} THEN 0 ELSE Min(hits)

\* the vssIds of the tracks that hold the literal "." + lang
Loose(tracks, lang) ==
    {tracks[k].vssId.s : k \in {j \in 1..Len(tracks) :
        tracks[j].vssId.def /\ includes(tracks[j].vssId.s, "." \o lang)}}

\* the precedence as stated: "." + lang, then "a." + lang, then a vssId that
\* holds the literal "." + lang; 0 is NotFound
TierOrdered(tracks, lang) ==
    IF FirstIn(tracks, {"." \o lang}) # 0 THEN FirstIn(tracks, {"." \o lang})
    ELSE IF FirstIn(tracks, {"a." \o lang}) # 0 THEN FirstIn(tracks, {"a." \o lang})
    ELSE FirstIn(tracks, Loose(tracks, lang))

\* C1: the selection returns the first track of the first tier that has one,
\* the third tier being the vssIds that hold the literal "." + lang, and
\* NotFound when no tier has a track; a vssId such as "aen" is never chosen.
C1_TierOrdered ==
    spc = "done" =>
        LET k == TierOrdered(captionTracks, selLang)
        IN  subtitle.url = IF k # 0 /\ Truthy(captionTracks[k].baseUrl)
                           THEN captionTracks[k].baseUrl ELSE None

(***************************************************************************)
(* Transcript parsing (SpecParse)                                          *)
(***************************************************************************)
\* a segment whose opening tag carries both attributes
WellFormed(seg) == seg.start.def /\ seg.dur.def
WellFormedSegs == SelectSeq(segs, WellFormed)

\* C4: a document of N well-formed and M malformed segments parses to
\* exactly N entries, one per well-formed segment, in document order,
\* whatever the bodies hold.
C4_OnePerWellFormed ==
    ppc = "done" =>
        /\ Len(acc) = Len(WellFormedSegs)
        /\ \A k \in 1..Len(WellFormedSegs) :
               /\ acc[k].start = WellFormedSegs[k].start.s
               /\ acc[k].dur = WellFormedSegs[k].dur.s

IsDigits(s) == s # "" /\ \A i \in 1..Len(s) : CharAt(s, i) \in Digits
\* one or more digits, optionally followed by '.' and one or more digits
IsDecimal(s) ==
    \/ IsDigits(s)
    \/ \E i \in 2..(Len(s) - 1) :
           /\ CharAt(s, i) = "."
           /\ IsDigits(SubSeq(s, 1, i - 1))
           /\ IsDigits(From(s, i + 1))

\* the text of a body once its opening tag is gone: &amp; unescaped, tags
\* stripped, entities decoded, tags stripped again
BodyText(body) == striptags(decode(removeTags(unescapeAmp(body))))

\* C5: the text of a well-formed segment is its body with only the opening
\* tag removed (up to its first '>'), then unescaped, stripped, decoded and
\* stripped: 'Hello <b>big</b> world' gives 'Hello big world'.
C5_TextOfBody ==
    (/\ ppc = "done"
     /\ \A k \in 1..Len(segs) :
            /\ WellFormed(segs[k])
            /\ IsDecimal(segs[k].start.s) /\ IsDecimal(segs[k].dur.s)) =>
        /\ Len(acc) = Len(segs)
        /\ \A k \in 1..Len(segs) : acc[k].text = BodyText(segs[k].body)

\* C10: the start and the dur of every entry are non-negative decimals; a
\* segment whose start or dur is "1.2.3" or "." gives no entry.
C10_DecimalTimes ==
    \A k \in 1..Len(acc) : IsDecimal(acc[k].start) /\ IsDecimal(acc[k].dur)

(***************************************************************************)
(* The requests (Spec, SpecConc)                                           *)
(***************************************************************************)
Finished(r) == pc[r] \in {"returned", "threw"}
Kinds(r) == [k \in 1..Len(fetched[r]) |-> fetched[r][k].kind]

\* the markup holds no manifest that can be read as a JSON array
NoManifest(o, html) ==
    LET m == IF o.module = "index.ts"
             THEN captionTracksExec(html, FALSE, "]")
             ELSE captionTracksExec(html, TRUE, "],")
    IN  \/ ~includes(html, "captionTracks")
        \/ ~m.def
        \/ ~JSONparse(m.s).ok

\* C2: the manifest extraction never raises: a page without the marker, or
\* with the marker and an array that cannot be extracted or parsed, ends the
\* request with an empty subtitle sequence.
C2_ExtractionNeverRaises ==
    \A r \in DOMAIN pc :
        (data[r].def /\ NoManifest(opts[r], data[r].s)) =>
            /\ pc[r] = "returned"
            /\ ret[r].subtitles = <<>>

\* C3: without page markup, a proxy function that gives no usable URL makes
\* the request fail with the configuration error, and no page is retrieved.
C3_ProxyConfigError ==
    \A r \in DOMAIN pc :
        (/\ pc[r] # "idle"
         /\ opts[r].module = "index.ts"
         /\ ~Truthy(opts[r].pageHtml)
         /\ opts[r].proxy \in {"null", "empty"}) =>
            /\ pc[r] = "threw"
            /\ ret[r].error = "Proxy function didn't return a valid url"
            /\ fetched[r] = <<>>

\* C6: a request that carries a direct track-download URL retrieves the
\* transcript from exactly that URL, and nothing else, whatever its video
\* identifier, language and page markup are; no page is resolved, and the
\* result is the parse of the document received.
C6_DirectUrlBypass ==
    \A r \in DOMAIN pc :
        (/\ pc[r] # "idle"
         /\ opts[r].module = "part_000"
         /\ opts[r].entry = "getSubtitles"
         /\ Truthy(opts[r].captionDownloadUrl)) =>
            /\ fetched[r] = <<[kind |-> "track", url |-> opts[r].captionDownloadUrl.s]>>
            /\ ~data[r].def
            /\ pc[r] \in {"track", "returned", "threw"}
            /\ pc[r] = "threw" => ret[r].error = "fetch failed"
            /\ pc[r] = "returned" =>
                   /\ doc[r].def
                   /\ ret[r] = [Pending EXCEPT !.kind = "subtitles",
                                               !.subtitles = parseTranscript(doc[r].s)]

\* a direct URL beside a page without the marker: the subtitles are returned
C6_Witness ==
    \E r \in DOMAIN pc :
        /\ pc[r] = "returned"
        /\ opts[r].module = "part_000"
        /\ opts[r].entry = "getSubtitles"
        /\ opts[r].captionDownloadUrl = Some("u9")
        /\ opts[r].pageHtml = Some(BodyNoMarker)
        /\ opts[r].lang = Some("fr")
        /\ opts[r].videoID = ""
        /\ Len(ret[r].subtitles) = 1

\* the pages on which the extraction or the selection ends in NotFound:
\* no marker, no array, no track for the language or none with a baseUrl
NotFoundBodies == {BodyNoMarker, BodyNoArray, BodyNoUrl}
TitleOfDesc(p) == IF p.head.title.def THEN p.head.title.s ELSE NoTitle
DescriptionOfDesc(p) ==
    IF p.head.description.def THEN p.head.description.s ELSE NoDescription

\* C7: the details carry the content of the title tag and of the description
\* tag of the page, each on its own, and the placeholder for an absent tag;
\* on a NotFound page they are returned with the same title and description
\* and an empty subtitle sequence.
C7_Details ==
    \A r \in DOMAIN pc : \A p \in PageDescs :
        (opts[r].entry = "getVideoDetails" /\ data[r] = Some(Markup(p))) =>
            /\ pc[r] = "returned" =>
                   /\ ret[r].kind = "details"
                   /\ ret[r].title = TitleOfDesc(p)
                   /\ ret[r].description = DescriptionOfDesc(p)
            /\ p.body \in NotFoundBodies =>
                   /\ pc[r] = "returned"
                   /\ ret[r].subtitles = <<>>
                   /\ fetched[r] \in {<<>>, <<[kind |-> "page", url |-> requestUrlOf(opts[r])]>>}

\* a page with a title tag and no description tag, and no usable track
C7_Witness ==
    \E r \in DOMAIN pc :
        /\ pc[r] = "returned"
        /\ opts[r].entry = "getVideoDetails"
        /\ data[r] = Some(Markup([head |-> [title |-> Some("X"), description |-> None],
                                  body |-> BodyNoUrl]))
        /\ ret[r].title = "X"
        /\ ret[r].description = NoDescription
        /\ ret[r].subtitles = <<>>

\* the outcome of a call on its own: o the options, page and track what the
\* two retrievals answer (None: the retrieval failed)
AloneFromUrl(o, m, track) ==
    IF ~track.def THEN Throw("fetch failed")
    ELSE Return(o, m, parseTranscript(track.s))

AloneFromPage(o, html, track) ==
    LET t == resolveTrack(o, html)
    IN  CASE t.do = "throw" -> Throw("SyntaxError")
          [] t.do = "notfound" ->
               IF o.entry = "getSubtitlesDownloadUrl" THEN ReturnUrl(None)
               ELSE Return(o, metaOf(o, html), <<>>)
          [] OTHER ->
               IF o.entry = "getSubtitlesDownloadUrl" THEN ReturnUrl(Some(t.url))
               ELSE AloneFromUrl(o, metaOf(o, html), track)

Alone(o, page, track) ==
    LET g == getYouTubePageHTML(o)
    IN  CASE g.do = "throw" -> Throw("Proxy function didn't return a valid url")
          [] g.do = "null" ->
               IF o.entry = "getSubtitlesDownloadUrl" THEN ReturnUrl(None)
               ELSE Return(o, NoMeta, <<>>)
          [] g.do = "direct" ->
               IF o.entry = "getSubtitlesDownloadUrl" THEN ReturnUrl(Some(g.url))
               ELSE AloneFromUrl(o, NoMeta, track)
          [] g.do = "html" -> AloneFromPage(o, o.pageHtml.s, track)
          [] OTHER ->
               IF ~page.def THEN Throw("fetch failed")
               ELSE AloneFromPage(o, page.s, track)

\* the result of every finished request is the one it gives on its own
C8_ResultAsAlone ==
    \A r \in DOMAIN pc : Finished(r) => ret[r] = Alone(opts[r], data[r], doc[r])

\* a step changes the state of one request only
C8_OneRequestPerStep ==
    \E r \in DOMAIN pc : \A q \in DOMAIN pc \ {r} :
        /\ opts'[q] = opts[q] /\ pc'[q] = pc[q] /\ data'[q] = data[q]
        /\ meta'[q] = meta[q] /\ doc'[q] = doc[q]
        /\ fetched'[q] = fetched[q] /\ ret'[q] = ret[q]

\* C8: requests that interleave at their retrievals share no state: a step
\* of one request leaves the others as they are, and the result of each is
\* the result it gives alone on the same answers of the retrievals.
C8_Isolation == []C8_ResultAsAlone /\ [][C8_OneRequestPerStep]_vars

\* two requests for details, on different pages, both with subtitles
C8_Witness ==
    /\ pc[1] = "returned" /\ pc[2] = "returned"
    /\ ret[1].kind = "details" /\ ret[2].kind = "details"
    /\ ret[1].title = "X" /\ ret[2].title = "Y"
    /\ fetched[1] = <<[kind |-> "page", url |-> pageUrlOf("v1")], [kind |-> "track", url |-> "u1"]>>
    /\ fetched[2] = <<[kind |-> "track", url |-> "u2"]>>
    /\ Len(ret[1].subtitles) = 1 /\ Len(ret[2].subtitles) = 1

====
